---- MODULE Spec2Model ----
(***************************************************************************)
(* ChroniKeeper EnvironmentEngine: the clock (time hub), the time buffer   *)
(* (request / commit / rollback / force / graceful tick) and the ledger of *)
(* weather events, modelled from world_core/environment_engine.py.         *)
(*                                                                         *)
(* Hours are Python floats in the source.  The model keeps them exact, as  *)
(* integer multiples of one quantum = lag_tolerance / 2 = 0.025 h, so that *)
(* the arithmetic of the clock (+, -, %, comparisons) is the arithmetic of *)
(* the reals on that grid.  Binary rounding is modelled in one place, the  *)
(* "hour % 24" of set_hour, whose argument is any float the caller passes: *)
(* there an argument is a grid value q plus the sign eps of a part too     *)
(* small to survive an addition to 24.0 (eps = -1 with q = 0 is a float    *)
(* such as -1e-20).  Elsewhere the rounding of float addition is not       *)
(* modelled.                                                               *)
(***************************************************************************)
EXTENDS Integers, Sequences, FiniteSets, TLC

VARIABLES
    time_state,           \* self.time_state: day, hour, day_of_year, month, year, is_night
    pending_hours,        \* self._pending_hours (quanta)
    total_elapsed_hours,  \* self._total_elapsed_hours (quanta)
    active_events,        \* self.active_events: the ledger of weather events
    hemisphere,           \* self.hemisphere
    map_manager,          \* self.map_manager: <<>> (None) or <<the context fragment it returns>>
    last_update_hour,     \* self._last_update_hour: <<>> until the first update, then <<hour>>
    signature,            \* self.signature: <<>> ({}) until the first update, then <<sig>>
    prev_temperature,     \* self.prev_temperature (ten-thousandths)
    world,                \* the world-state carrier the caller passes to update
    returned,             \* what the last get_season / get_moon_phase / update returned
    upd,                  \* history: the update called last: the ledger it found, the
                          \*   elapsed hours and fade speed it computed, the event effects
                          \*   it applied, and the count of updates so far
    moved,                \* history: the hours the clock was advanced by since the last
                          \*   update, and whether only advances moved it
    last,                 \* history: the operation called last, its hours argument, the
                          \*   pending hours that commit_time, force_time_jump,
                          \*   graceful_tick or a rollback_time closing a run found,
                          \*   and the phase of the run it closed
    run,                  \* history: the run of calls request_time+ [force_time_jump] in
                          \*   progress on a buffer that was empty when the run began, with
                          \*   the clock and the total the run began from
    callers               \* history: the logical callers that share the engine: where
                          \*   each one is in its turn and the hours it moved the clock by
                          \*   since its own previous update

vars == <<time_state, pending_hours, total_elapsed_hours, active_events, hemisphere,
          map_manager, last_update_hour, signature, prev_temperature, world, returned,
          upd, moved, last, run, callers>>

-----------------------------------------------------------------------------
(* Program constants *)

\* self.lag_tolerance = 0.05 h, in quanta of 0.025 h
lag_tolerance == 2

\* quanta in one hour: 1 h = 20 * 0.05 h
QuantaPerHour == 20 * lag_tolerance

\* the 24.0 of advance_time and set_hour, in quanta
H24 == 24 * QuantaPerHour

\* the 360 of _advance_day
DaysPerYear == 360

\* fades are kept to four decimals: "fade": 1.0 of a new event
FullFade == 10000

\* the 0.01 of "if intensity > 0.01" in update, as a fade
InertFade == FullFade \div 100

Hours(n) == n * QuantaPerHour

-----------------------------------------------------------------------------
(* Bounds of the exploration *)

\* pending_hours stays within -MaxDebt .. MaxPending quanta
MaxPending == 3

MaxDebt == 1

\* total_elapsed_hours stays within MaxTotal quanta
MaxTotal == 4

\* the clock is explored on day 1, the day of construction, and on the days
\* LateDay .. LateDay+MaxAdvDays around the first year wrap (day 241 is
\* day_of_year 360, day 242 is day_of_year 1 of year 2)
MaxAdvDays == 2

LateDay == 240

\* the ledger holds at most MaxEvents events
MaxEvents == 1

\* the loop of advance_time is followed for at most 2^LoopDepth passes (days)
LoopDepth == 9

\* advancing by k * 24 h is checked for k up to MaxWholeDays
MaxWholeDays == 2

DayInWindow(d) ==
    \/ d = 1
    \/ d >= LateDay /\ d <= LateDay + MaxAdvDays

(* Inputs *)
RequestHours == {-1, 1, 3}                     \* request_time(hours), quanta
TickHours    == {-2, 2}                        \* graceful_tick(hours), quanta (even: hours * 0.5 is exact)
ForceHours   == {0, 3}                         \* force_time_jump(hours), quanta
AdvanceHours == {Hours(6), Hours(24), Hours(48), Hours(24) * (LateDay - 1)}
\* set_hour(hour): below 0, above 24, and a negative hour smaller than the
\* spacing of the floats at 24.0
SetHours     == {[q |-> -1, eps |-> 0], [q |-> Hours(42) - 1, eps |-> 0],
                 [q |-> 0, eps |-> -1]}
EventTypes   == {"Storm", "clear", "snow"}     \* set_test_flag(event_type)
Durations    == {6}

-----------------------------------------------------------------------------
(* The engine object *)

Engine ==
    [time_state          |-> time_state,
     pending_hours       |-> pending_hours,
     total_elapsed_hours |-> total_elapsed_hours,
     active_events       |-> active_events,
     hemisphere          |-> hemisphere,
     map_manager         |-> map_manager,
     last_update_hour    |-> last_update_hour,
     signature           |-> signature,
     prev_temperature    |-> prev_temperature]

\* __init__
Constructed ==
    [time_state          |-> [day |-> 1, hour |-> Hours(12), day_of_year |-> 120,
                              month |-> 4, year |-> 1, is_night |-> FALSE],
     pending_hours       |-> 0,
     total_elapsed_hours |-> 0,
     active_events       |-> <<>>,
     hemisphere          |-> "north",
     map_manager         |-> <<>>,
     last_update_hour    |-> <<>>,
     signature           |-> <<>>,
     prev_temperature    |-> FullFade \div 2]

-----------------------------------------------------------------------------
(* TIME: these methods read and write self.time_state only, and are modelled *)
(* as functions of it: ts is self.time_state.                              *)

update_day_night(ts) ==
    LET hr == ts.hour IN
    [ts EXCEPT !.is_night = ~(Hours(6) <= hr /\ hr < Hours(18))]

\* C fmod(x, y) for y > 0: the exact remainder of the division truncated
\* towards zero, with the sign of x
fmod(x, y) ==
    [q   |-> IF x.q >= 0 THEN x.q % y ELSE -((-x.q) % y),
     eps |-> x.eps]

\* Python's x % y on floats, for y > 0: fmod(x, y), and y added to a non-zero
\* negative remainder.  The addition rounds to the nearest float: the part of
\* the remainder below the spacing of the floats at y is lost.
float_mod(x, y) ==
    LET mod == fmod(x, y) IN
    IF mod.q < 0 \/ (mod.q = 0 /\ mod.eps < 0) THEN mod.q + y ELSE mod.q

\* set_hour without the call of _update_day_night
set_hour_stale_flag(ts, hour) ==
    [ts EXCEPT !.hour = float_mod(hour, H24)]

set_hour(ts, hour) ==
    update_day_night([ts EXCEPT !.hour = float_mod(hour, H24)])

\* _advance_day with ">=" for ">": the year wraps one day early
advance_day_wraps_early(ts) ==
    IF ts.day_of_year + 1 >= DaysPerYear
    THEN [ts EXCEPT !.day = @ + 1, !.day_of_year = 1, !.year = @ + 1, !.month = 1]
    ELSE [ts EXCEPT !.day = @ + 1, !.day_of_year = @ + 1]

\* _update_month
update_month(ts) ==
    LET m == ts.day_of_year \div 30 + 1 IN
    [ts EXCEPT !.month = IF m > 12 THEN 12 ELSE m]

\* _advance_day followed by a call of _update_month
advance_day_refreshes_month(ts) ==
    update_month(IF ts.day_of_year + 1 > DaysPerYear
                 THEN [ts EXCEPT !.day = @ + 1, !.day_of_year = 1, !.year = @ + 1,
                                 !.month = 1]
                 ELSE [ts EXCEPT !.day = @ + 1, !.day_of_year = @ + 1])

advance_day(ts) ==
    IF ts.day_of_year + 1 > DaysPerYear
    THEN [ts EXCEPT !.day = @ + 1, !.day_of_year = 1, !.year = @ + 1, !.month = 1]
    ELSE [ts EXCEPT !.day = @ + 1, !.day_of_year = @ + 1]

\* one pass of the loop body of advance_time: h -= 24.0; self._advance_day()
loop_body(st) ==
    [ts |-> advance_day(st.ts), h |-> st.h - H24]

\* the loop of advance_time, "while h >= 24.0: <body>", on the pair of time_state
\* and the local h.  It is run as two half-runs of at most 2^(k-1) passes each, so
\* that the evaluation nests k deep, not one level per day; a half-run that finds
\* the condition false returns at once, as the loop does.
RECURSIVE while_loop(_, _)
while_loop(k, st) ==
    IF ~(st.h >= H24)
    THEN st
    ELSE IF k = 0
         THEN loop_body(st)
         ELSE LET half == while_loop(k - 1, st) IN while_loop(k - 1, half)

\* after the loop: self.time_state["hour"] = h; self._update_day_night()
loop_exit(st) ==
    update_day_night([st.ts EXCEPT !.hour = st.h])

\* advance_time with "if h >= 24.0" for "while h >= 24.0": one pass at most
advance_time_one_pass(ts, hours) ==
    loop_exit(while_loop(0, [ts |-> ts, h |-> ts.hour + hours]))

advance_time(ts, hours) ==
    loop_exit(while_loop(LoopDepth, [ts |-> ts, h |-> ts.hour + hours]))

-----------------------------------------------------------------------------
(* TIME BUFFER CONTROL: self is the engine *)

\* request_time with "=" for "+="
request_time_assigns(self, hours) ==
    [self EXCEPT !.pending_hours = hours]

request_time(self, hours) ==
    [self EXCEPT !.pending_hours = @ + hours]

\* commit_time without "self._pending_hours = 0.0"
commit_time_keeps_pending(self) ==
    IF self.pending_hours <= 0
    THEN self
    ELSE LET delta == self.pending_hours IN
         [self EXCEPT !.time_state = advance_time(@, delta),
                      !.total_elapsed_hours = @ + delta]

commit_time(self) ==
    IF self.pending_hours <= 0
    THEN self
    ELSE LET delta == self.pending_hours IN
         [self EXCEPT !.time_state = advance_time(@, delta),
                      !.pending_hours = 0,
                      !.total_elapsed_hours = @ + delta]

\* rollback_time with the reset indented under "if self._pending_hours > 0.0"
rollback_time_keeps_debt(self) ==
    IF self.pending_hours > 0
    THEN [self EXCEPT !.pending_hours = 0]
    ELSE self

rollback_time(self) ==
    [self EXCEPT !.pending_hours = 0]

\* force_time_jump that also drops what is pending
force_time_jump_flushes(self, hours) ==
    [self EXCEPT !.time_state = advance_time(@, hours),
                 !.total_elapsed_hours = @ + hours,
                 !.pending_hours = 0]

\* force_time_jump without "self._total_elapsed_hours += hours"
force_time_jump_uncounted(self, hours) ==
    [self EXCEPT !.time_state = advance_time(@, hours)]

force_time_jump(self, hours) ==
    [self EXCEPT !.time_state = advance_time(@, hours),
                 !.total_elapsed_hours = @ + hours]

\* graceful_tick whose addition of hours * 0.5 is lost in rounding
graceful_tick_absorbed(self, hours) ==
    IF self.pending_hours >= lag_tolerance
    THEN commit_time(self)
    ELSE self

\* graceful_tick with ">" for ">="
graceful_tick_strict(self, hours) ==
    IF self.pending_hours > lag_tolerance
    THEN commit_time(self)
    ELSE [self EXCEPT !.pending_hours = @ + (hours \div 2)]

graceful_tick(self, hours) ==
    IF self.pending_hours >= lag_tolerance
    THEN commit_time(self)
    ELSE [self EXCEPT !.pending_hours = @ + (hours \div 2)]

-----------------------------------------------------------------------------
(* SEASON AND MOON *)

\* the lookup with the northern table for both hemispheres
season_of_north_only(hemi, m) ==
    IF 3 <= m /\ m <= 5 THEN "spring"
    ELSE IF 6 <= m /\ m <= 8 THEN "summer"
    ELSE IF 9 <= m /\ m <= 11 THEN "autumn"
    ELSE "winter"

\* the lookup of get_season, for a month m already normalised
season_of(hemi, m) ==
    IF hemi = "north"
    THEN IF 3 <= m /\ m <= 5 THEN "spring"
         ELSE IF 6 <= m /\ m <= 8 THEN "summer"
         ELSE IF 9 <= m /\ m <= 11 THEN "autumn"
         ELSE "winter"
    ELSE IF 3 <= m /\ m <= 5 THEN "autumn"
         ELSE IF 6 <= m /\ m <= 8 THEN "winter"
         ELSE IF 9 <= m /\ m <= 11 THEN "spring"
         ELSE "summer"

\* "Wrap month correctly": the month get_season looks up
wrapped_month(m) ==
    IF m < 1 THEN 1
    ELSE IF m > 12 THEN ((m - 1) % 12) + 1
    ELSE m

\* get_time_status: a copy of the clock
get_time_status(self) == self.time_state

\* get_season: the engine after the call (the month is written back only on the
\* branch m > 12) and the season returned
get_season(self) ==
    LET m == self.time_state.month IN
    [self   |-> IF m > 12
                THEN [self EXCEPT !.time_state.month = wrapped_month(m)]
                ELSE self,
     season |-> season_of(self.hemisphere, wrapped_month(m))]

phase_names ==
    <<"New Moon", "Waxing Crescent", "First Quarter", "Waxing Gibbous",
      "Full Moon", "Waning Gibbous", "Last Quarter", "Waning Crescent">>

\* light factors, in thousandths
light_curve == <<50, 150, 300, 500, 1000, 500, 300, 150>>

\* the length of the moon cycle in get_moon_phase
MoonCycle == 29

\* the phase index over a cycle of thirty days
phase_index_thirty_days(day_of_year) == (8 * (day_of_year % 30)) \div 30

\* int((day_index / 29) * 8), for day_index = day_of_year % 29
phase_index(day_of_year) == (8 * (day_of_year % MoonCycle)) \div MoonCycle

\* get_moon_phase: <<phase_name, light_factor>>
get_moon_phase(self) ==
    LET i == phase_index(self.time_state.day_of_year) IN
    <<phase_names[i + 1], light_curve[i + 1]>>

-----------------------------------------------------------------------------
(* TEST FLAGS / EVENT CONTROL *)

\* str.lower() on the event types drawn as inputs
Lower(event_type) ==
    CASE event_type = "Storm" -> "storm"
      [] event_type = "FOG" -> "fog"
      [] event_type = "Clear" -> "clear"
      [] OTHER -> event_type

KnownTypes == {"storm", "rain", "fog", "heatwave"}

\* the effects of _build_event, in hundredths
effects_of(event_type) ==
    CASE event_type = "storm" ->
            [precipitation |-> 40, visibility |-> -60, comfort |-> -30,
             airflow |-> 30, noise |-> 20]
      [] event_type = "rain" ->
            [precipitation |-> 20, visibility |-> -30, comfort |-> -10,
             air_quality |-> 5]
      [] event_type = "fog" ->
            [visibility |-> -50, comfort |-> -10, airflow |-> -20]
      [] event_type = "heatwave" ->
            [temperature |-> 25, comfort |-> -30, air_quality |-> -20,
             airflow |-> -10]

clear_test_flags(self) ==
    [self EXCEPT !.active_events = <<>>]

\* _build_event: <<the engine after the call, the events it returns (none or one)>>
build_event(self, event_type, duration) ==
    LET t == Lower(event_type) IN
    IF t \in KnownTypes
    THEN <<self, <<[type |-> t, duration |-> duration, fade |-> FullFade,
                    effects |-> effects_of(t), test |-> TRUE]>> >>
    ELSE IF t = "clear"
         THEN <<clear_test_flags(self), <<>> >>
         ELSE <<self, <<>> >>

\* set_test_flag putting the new event in front of the ledger
set_test_flag_prepends(self, event_type, duration) ==
    LET r == build_event(self, event_type, duration) IN
    [r[1] EXCEPT !.active_events = r[2] \o @]

set_test_flag(self, event_type, duration) ==
    LET r == build_event(self, event_type, duration) IN
    [r[1] EXCEPT !.active_events = @ \o r[2]]

-----------------------------------------------------------------------------
(* MAIN UPDATE: the terrain context, the elapsed hours, the fade speed and the *)
(* ledger of events.  Context values are in thousandths, fade speeds in       *)
(* ten-thousandths, fades in ten-thousandths rounded to the nearest.  The     *)
(* climate, daylight and visibility signals of update are not modelled, nor   *)
(* _maybe_spawn_auto_event, which auto_weather_enabled = False switches off.  *)

\* {}
EmptyCtx == [k \in {} |-> 0]

\* ctx.get(key, default)
Get(ctx, key, default) == IF key \in DOMAIN ctx THEN ctx[key] ELSE default

\* the one element of a set of one: { e(x) : x \in {v} } has v evaluated once
the(S) == CHOOSE x \in S : TRUE

\* _clamp(v, lo, hi)
clamp(v, lo, hi) == IF v < lo THEN lo ELSE IF v > hi THEN hi ELSE v

\* the ctx that update takes from its argument: None, a raw dict, or an object
\* with or without a context attribute
context_of(world_state) ==
    IF world_state.kind = "none" THEN EmptyCtx
    ELSE IF world_state.kind = "dict" THEN world_state.context
    ELSE IF world_state.has_context THEN world_state.context
    ELSE EmptyCtx

\* getattr(world_state, "location_id", None): <<>> is None
location_of(world_state) ==
    IF world_state.kind = "object" THEN world_state.location_id ELSE <<>>

\* "map context": ctx = {**map_ctx, **ctx}, and then, with a map manager and a
\* location, ctx = self.map_manager.get_context_fragment(location_id)
terrain_context(self, world_state) ==
    LET ctx     == context_of(world_state)
        wired   == self.map_manager # <<>> /\ location_of(world_state) # <<>>
        map_ctx == IF wired THEN self.map_manager[1] ELSE EmptyCtx
        merged  == ctx @@ map_ctx
    IN  IF wired THEN self.map_manager[1] ELSE merged

\* elapsed_hours without "% 24.0": negative after the clock is set back
elapsed_hours_signed(self) ==
    LET hour == self.time_state.hour
        lh   == IF self.last_update_hour = <<>> THEN hour ELSE self.last_update_hour[1]
    IN  hour - lh

\* elapsed_hours measured from the hour of construction
elapsed_hours_from_noon(self) ==
    float_mod([q |-> self.time_state.hour - Constructed.time_state.hour, eps |-> 0], H24)

\* elapsed_hours = (hour - self._last_update_hour) % 24.0, the first update
\* taking its own hour as the last one
elapsed_hours(self) ==
    LET hour == self.time_state.hour
        lh   == IF self.last_update_hour = <<>> THEN hour ELSE self.last_update_hour[1]
    IN  float_mod([q |-> hour - lh, eps |-> 0], H24)

\* SEASON_FADE_MODIFIERS, in tenths
SEASON_FADE_MODIFIERS ==
    [spring |-> 7, summer |-> 10, autumn |-> 8, winter |-> 4]

\* fade_speed = season_fade * fade_mod, in ten-thousandths, with heat_ret and
\* airflow as the urban adjustments of update leave them
fade_speed(self, season, ctx) ==
    LET sd       == Get(ctx, "structure_density", 0)
        ss       == Get(ctx, "settlement_size", 0)
        heat_ret == Get(ctx, "heat_retention", 0)
                    + (IF self.time_state.is_night
                       THEN (100 * sd + 50 * ss) \div 1000
                       ELSE (50 * sd) \div 1000)
        airflow  == (Get(ctx, "airflow", 500) * (1000 - Get(ctx, "wind_block", 0))
                     + 300 * Get(ctx, "wind_redirect", 0)) \div 1000
        water    == Get(ctx, "water_coverage", 0)
        elev     == Get(ctx, "elevation", 0)
        fade_mod == clamp(600000 - 250 * airflow + 250 * heat_ret + 200 * water
                          - 100 * elev, 200000, 1200000) \div 1000
    IN  SEASON_FADE_MODIFIERS[season] * fade_mod

\* a * b for a fade a and a factor b, both in ten-thousandths, to the nearest
mul(a, b) == (a * b + FullFade \div 2) \div FullFade

\* 0.85 ** (2^k / 400000) and 0.90 ** (2^k / 400000) for k = 0 .. 23, in
\* ten-thousandths: the exponents of update are fade_speed (ten-thousandths)
\* times hours (quanta of 1/40 h)
PowTable85 ==
    <<10000, 10000, 10000, 10000, 10000, 10000, 10000, 9999, 9999, 9998, 9996, 9992,
      9983, 9967, 9934, 9868, 9737, 9481, 8990, 8081, 6531, 4265, 1819, 331>>

PowTable90 ==
    <<10000, 10000, 10000, 10000, 10000, 10000, 10000, 10000, 9999, 9999, 9997, 9995,
      9989, 9978, 9957, 9914, 9829, 9661, 9333, 8710, 7587, 5756, 3313, 1097>>

\* the product of the factors of the bits k .. k+n-1 of the exponent x
RECURSIVE pow_bits(_, _, _, _)
pow_bits(table, x, k, n) ==
    IF n = 0 THEN FullFade
    ELSE mul(IF (x \div 2^k) % 2 = 1 THEN table[k + 1] ELSE FullFade,
             pow_bits(table, x, k + 1, n - 1))

\* base ** (x / 400000) by the binary digits of x, 0 <= x < 2^24
pow(table, x) ==
    mul(mul(pow_bits(table, x, 0, 8), pow_bits(table, x, 8, 8)),
        pow_bits(table, x, 16, 8))

\* decayed_fade without the storm's first factor 0.85 ** fade_speed
decayed_fade_time_only(ev, fs, elapsed) ==
    IF ev.type = "storm"
    THEN mul(ev.fade, pow(PowTable85, fs * elapsed))
    ELSE IF ev.type \in {"rain", "fog", "snow"}
         THEN ev.fade - (fs * elapsed + 250) \div 500
         ELSE mul(ev.fade, pow(PowTable90, fs * elapsed))

\* the fade of ev after the decay of one update
decayed_fade(ev, fs, elapsed) ==
    IF ev.type = "storm"
    THEN mul(mul(ev.fade, pow(PowTable85, fs * QuantaPerHour)),
             pow(PowTable85, fs * elapsed))
    ELSE IF ev.type \in {"rain", "fog", "snow"}
         THEN ev.fade - (fs * elapsed + 250) \div 500
         ELSE mul(ev.fade, pow(PowTable90, fs * elapsed))

\* intensity = _clamp(ev["fade"], 0.0, 1.0)
intensity_of(ev) == clamp(ev.fade, 0, FullFade)

\* the effect deltas update adds to the signals for ev: delta * intensity for
\* each key of its effects, none with intensity <= 0.01
applied_effects(ev) ==
    IF intensity_of(ev) > InertFade
    THEN [key \in DOMAIN ev.effects |-> ev.effects[key] * intensity_of(ev)]
    ELSE EmptyCtx

\* the loop body with a duration that stops at 0
decay_event_floored(ev, fs, elapsed) ==
    [ev EXCEPT !.duration = IF @ > 0 THEN @ - 1 ELSE 0,
               !.fade = decayed_fade(ev, fs, elapsed)]

\* the loop body on one event: duration - 1 and the decayed fade
decay_event(ev, fs, elapsed) ==
    [ev EXCEPT !.duration = @ - 1, !.fade = decayed_fade(ev, fs, elapsed)]

\* the ledger after the loop, with the events that have faded out pruned
decayed_ledger_pruned(events, fs, elapsed) ==
    SelectSeq([i \in 1 .. Len(events) |-> decay_event(events[i], fs, elapsed)],
              LAMBDA ev : ev.fade > InertFade)

\* the ledger after the loop: every event stays, decayed in place
decayed_ledger(events, fs, elapsed) ==
    [i \in 1 .. Len(events) |-> decay_event(events[i], fs, elapsed)]

\* round(x, 3) of a value in ten-thousandths, ties to even
round3(x) ==
    LET q == x \div 10
        r == x % 10
    IN  IF r < 5 THEN 10 * q
        ELSE IF r > 5 THEN 10 * (q + 1)
        ELSE 10 * (q + (q % 2))

\* active_event_names without the intensity test: every ledger event is listed
active_event_names_unfiltered(events) ==
    [i \in 1 .. Len(events) |-> events[i].type]

\* active_event_names: the types of the events with intensity > 0.01, in order
active_event_names(events) ==
    LET listed == SelectSeq(events, LAMBDA ev : intensity_of(ev) > InertFade)
    IN  [i \in 1 .. Len(listed) |-> listed[i].type]

\* max_event_intensity: 0.0, raised by the intensity of each listed event
max_event_intensity(events) ==
    LET S == {0} \cup {intensity_of(events[i]) :
                        i \in {j \in 1 .. Len(events) : intensity_of(events[j]) > InertFade}}
    IN  CHOOSE x \in S : \A y \in S : y <= x

\* the signals of update, in ten-thousandths.  The clock stands on whole hours
\* wherever update is called, and the sine and cosine of the hour, the
\* daylight of the day and the light of a settlement are tables of the values
\* the source computes with math.sin, math.cos, math.acos, ** and math.exp.

CLIMATE_BASELINES ==
    [temperate |-> [temperature |-> 5000, humidity |-> 5000, precipitation |-> 2500,
                    air_quality |-> 8000],
     arid      |-> [temperature |-> 7500, humidity |-> 1500, precipitation |-> 200,
                    air_quality |-> 8500],
     polar     |-> [temperature |-> 2000, humidity |-> 4000, precipitation |-> 2000,
                    air_quality |-> 8500],
     tropical  |-> [temperature |-> 8000, humidity |-> 8000, precipitation |-> 6000,
                    air_quality |-> 7500]]

SEASON_MODIFIERS ==
    [spring |-> [temperature |-> 500, humidity |-> 500, precipitation |-> 500],
     summer |-> [temperature |-> 1800, humidity |-> 0, precipitation |-> -500],
     autumn |-> [temperature |-> -500, humidity |-> 500, precipitation |-> 500],
     winter |-> [temperature |-> -2800, humidity |-> 0, precipitation |-> 500]]

\* _clamp(v) with its defaults lo = 0.0, hi = 1.0
clamp01(v) == clamp(v, 0, FullFade)

\* getattr(world_state, "climatic_zone", "temperate") if world_state else "temperate"
climate_of(world_state) ==
    IF world_state.kind = "object" THEN world_state.climatic_zone ELSE "temperate"

\* CLIMATE_BASELINES.get(climate, CLIMATE_BASELINES["temperate"]) with the
\* season's modifiers added and clamped
base_of(climate, season) ==
    LET b    == IF climate \in DOMAIN CLIMATE_BASELINES
                THEN CLIMATE_BASELINES[climate]
                ELSE CLIMATE_BASELINES["temperate"]
        seas == SEASON_MODIFIERS[season]
    IN  [temperature   |-> clamp01(b.temperature + seas.temperature),
         humidity      |-> clamp01(b.humidity + seas.humidity),
         precipitation |-> clamp01(b.precipitation + seas.precipitation),
         air_quality   |-> b.air_quality]

\* math.sin((hour / 24.0) * math.pi * 2) for hour = 0 .. 23
SinHour ==
    <<0, 2588, 5000, 7071, 8660, 9659, 10000, 9659, 8660, 7071, 5000, 2588,
      0, -2588, -5000, -7071, -8660, -9659, -10000, -9659, -8660, -7071, -5000, -2588>>

\* 0.5 + 0.5 * math.cos(((hour - 12) / 12) * math.pi) for hour = 0 .. 23
CosHour ==
    <<0, 170, 670, 1464, 2500, 3706, 5000, 6294, 7500, 8536, 9330, 9830,
      10000, 9830, 9330, 8536, 7500, 6294, 5000, 3706, 2500, 1464, 670, 170>>

\* the whole hour of the clock
whole_hour(hour) == (hour \div QuantaPerHour) % 24

\* daylight_factor at latitude 45.0 for day_of_year = 120 .. 139
DaylightAt45 ==
    <<5857, 5876, 5895, 5914, 5932, 5951, 5969, 5987, 6004, 6022,
      6039, 6056, 6072, 6089, 6105, 6120, 6136, 6151, 6166, 6180>>

\* daylight_factor = daylight_hours / 24.0 for the latitudes (thousandths of
\* a degree) and days the clock reaches: at latitude 80 the days 120 .. 139
\* are polar days, math.acos raises ValueError and daylight_hours is 24.0
daylight_factor(latitude, day_of_year) ==
    IF latitude = 80000 THEN FullFade ELSE DaylightAt45[day_of_year - 119]

\* (settlement_size / 5.0) ** 1.2 for settlement_size = 0 .. 5
BaseLight == <<0, 1450, 3330, 5417, 7651, 10000>>

\* math.exp(-1.5 * dist_to_city) for dist_to_city = 0, 1, 2 (thousandths)
distance_factor(dist) ==
    IF dist = 0 THEN FullFade ELSE IF dist = 1000 THEN 2231 ELSE 498

\* _crowd_pattern
crowd_pattern(hour) ==
    IF Hours(7) <= hour /\ hour < Hours(9) THEN 5000
    ELSE IF Hours(9) <= hour /\ hour < Hours(17) THEN 10000
    ELSE IF Hours(17) <= hour /\ hour < Hours(21) THEN 9000
    ELSE 2500

\* _night_safety_penalty
night_safety_penalty(hour) ==
    IF 0 <= hour /\ hour < Hours(6) THEN 800
    ELSE IF Hours(22) <= hour /\ hour < Hours(24) THEN 400
    ELSE 0

\* delta * intensity for one key of an event's effects, 0 without the key or
\* with intensity <= 0.01
effect_delta(ev, key) ==
    IF key \in DOMAIN applied_effects(ev)
    THEN (applied_effects(ev)[key] + 50) \div 100
    ELSE 0

\* whether the loop over ev["effects"] reaches key
touches(ev, key) == key \in DOMAIN applied_effects(ev)

\* one signal after the loop body on ev without _clamp
shifted(v, ev, key) == v + effect_delta(ev, key)

\* the loop body on ev without any _clamp
apply_event_unclamped(acc, ev) ==
    [temperature |-> shifted(acc.temperature, ev, "temperature"),
     precip      |-> shifted(acc.precip, ev, "precipitation"),
     visibility  |-> shifted(acc.visibility, ev, "visibility"),
     comfort_mod |-> shifted(acc.comfort_mod, ev, "comfort"),
     airflow     |-> shifted(acc.airflow, ev, "airflow"),
     air_quality |-> shifted(acc.air_quality, ev, "air_quality"),
     noise       |-> shifted(acc.noise, ev, "noise")]

\* one signal after the loop body on ev: _clamp(v + delta * intensity) when
\* the event has the key and intensity > 0.01, and v as it was otherwise
clamped_shift(v, ev, key) ==
    IF touches(ev, key) THEN clamp01(v + effect_delta(ev, key)) ELSE v

\* "scale effects by current fade": the signals after the loop body on ev
apply_event(acc, ev) ==
    [temperature |-> clamped_shift(acc.temperature, ev, "temperature"),
     precip      |-> clamped_shift(acc.precip, ev, "precipitation"),
     visibility  |-> clamped_shift(acc.visibility, ev, "visibility"),
     comfort_mod |-> acc.comfort_mod + effect_delta(ev, "comfort"),
     airflow     |-> clamped_shift(acc.airflow, ev, "airflow"),
     air_quality |-> clamped_shift(acc.air_quality, ev, "air_quality"),
     noise       |-> clamped_shift(acc.noise, ev, "noise")]

\* the loop over self.active_events, from the event i on
RECURSIVE apply_events(_, _, _)
apply_events(events, i, acc) ==
    IF i > Len(events) THEN acc
    ELSE apply_events(events, i + 1, apply_event(acc, events[i]))

\* |x|
abs(x) == IF x < 0 THEN -x ELSE x

\* max(a, b)
max(a, b) == IF b > a THEN b ELSE a

\* "comfort final", "safety" and "wind": the signals of the signature from
\* the ones the loop over the events leaves, and self.prev_temperature
composites(after, humidity, smoothed, hour) ==
    [prev_temperature |-> smoothed,
     temperature   |-> after.temperature,
     humidity      |-> humidity,
     precipitation |-> after.precip,
     comfort       |-> clamp01(FullFade - mul(abs(after.temperature - 5000), 12000)
                               - mul(after.precip, 3000) + after.comfort_mod),
     air_quality   |-> after.air_quality,
     visibility    |-> after.visibility,
     safety        |-> clamp01(FullFade - mul(after.noise, 1800)
                               - mul(FullFade - after.air_quality, 2500)
                               - night_safety_penalty(hour)),
     noise         |-> after.noise,
     wind_strength |-> clamp01(1000 + mul(after.airflow, 9000))]

\* the body of update between the context and the signature: the signals,
\* and the temperature it stores in self.prev_temperature
signals(self, world_state, season, ctx) ==
    LET climate   == climate_of(world_state)
        hour      == self.time_state.hour
        night     == self.time_state.is_night
        base      == base_of(climate, season)
        diurnal   == mul(SinHour[whole_hour(hour) + 1],
                         IF climate = "arid" THEN 1200 ELSE 800)
        raw_temp_base == clamp01(base.temperature + diurnal)
        heat_ret  == 10 * Get(ctx, "heat_retention", 0)
        airflow0  == 10 * Get(ctx, "airflow", 500)
        precip    == clamp01(base.precipitation)
        raw_temperature ==
            clamp01(raw_temp_base + mul(heat_ret, FullFade - airflow0) - mul(precip, 600))
        memory_weight == 7000 + mul(clamp(heat_ret, -2000, 6000), 3000)
        smoothed  == mul(self.prev_temperature, memory_weight)
                     + mul(raw_temperature, FullFade - memory_weight)
        noise     == clamp01(10 * Get(ctx, "noise", 300) + mul(crowd_pattern(hour), 4000))
        latitude  == Get(ctx, "latitude", 45000)
        df        == daylight_factor(latitude, self.time_state.day_of_year)
        lat_temp_bias == clamp(FullFade - abs(latitude) \div 9, 2000, FullFade)
        temperature ==
            clamp01(smoothed + mul(lat_temp_bias, 3000) + mul(df - 5000, 2500) - 1000)
        sd        == 10 * Get(ctx, "structure_density", 0)
        airflow   == mul(airflow0, FullFade - 10 * Get(ctx, "wind_block", 0))
                     + mul(10 * Get(ctx, "wind_redirect", 0), 3000)
        comfort_mod ==
            mul(10 * Get(ctx, "comfort", 0) + mul(df - 5000, 2000),
                FullFade - mul(10 * Get(ctx, "noise_pollution", 0), 3000))
        humidity  == clamp01(mul(base.humidity, FullFade - mul(2000, sd)) + mul(precip, 1500))
        atmo_visibility ==
            clamp01(FullFade - mul(humidity, IF night THEN 8000 ELSE 5000)
                    - mul(precip, 4000))
        daylight_curve == clamp01(CosHour[whole_hour(hour) + 1])
        season_vis_bias ==
            [summer |-> 3500, spring |-> 2500, autumn |-> 2000, winter |-> 1000][season]
        moon_light == 10 * get_moon_phase(self)[2]
        settlement_light ==
            mul(BaseLight[Get(ctx, "settlement_size", 0) \div 1000 + 1],
                distance_factor(Get(ctx, "distance_to_city", 1000)))
        light_pollution ==
            clamp01(10 * Get(ctx, "light_pollution", 0) + settlement_light)
        illumination ==
            IF night
            THEN clamp01(mul(moon_light, 5000) + mul(light_pollution, 12000)
                         + mul(daylight_curve, 3000))
            ELSE clamp01(daylight_curve + mul(light_pollution, 2000))
        min_visibility == 200 + mul(season_vis_bias, mul(illumination, 5000))
        darkness_weight == 1500 + mul(illumination, 6000)
        visibility ==
            max(clamp01(mul(atmo_visibility, darkness_weight)), mul(min_visibility, 8000))
        air_quality ==
            clamp01(base.air_quality + 10 * Get(ctx, "air_quality", 0) + mul(precip, 300)
                    - mul(noise, 800))
        before == [temperature |-> temperature, precip |-> precip,
                   visibility |-> visibility, comfort_mod |-> comfort_mod,
                   airflow |-> airflow, air_quality |-> air_quality, noise |-> noise]
    IN  the({composites(after, humidity, smoothed, hour) :
                after \in {apply_events(self.active_events, 1, before)}})

\* sig: the signals rounded to three decimals, and the fields of the clock,
\* the events and the moon
signature_of(s1, season, ctx, fs, sg) ==
    the({ [temperature      |-> round3(sg.temperature),
           humidity         |-> round3(sg.humidity),
           precipitation    |-> round3(sg.precipitation),
           comfort          |-> round3(sg.comfort),
           air_quality      |-> round3(sg.air_quality),
           visibility       |-> round3(sg.visibility),
           safety           |-> round3(sg.safety),
           noise            |-> round3(sg.noise),
           wind_strength    |-> round3(sg.wind_strength),
           season           |-> season,
           month            |-> s1.time_state.month,
           day              |-> s1.time_state.day,
           is_night         |-> s1.time_state.is_night,
           active_events    |-> active_event_names(s1.active_events),
           event_intensity  |-> round3(max_event_intensity(s1.active_events)),
           event_fade_speed |-> round3(fs),
           local_context    |-> ctx,
           moon_phase       |-> moon[1],
           moon_light       |-> moon[2]] :
          moon \in {get_moon_phase(s1)} })

\* update from "apply + decay events" on: s1 is the engine after get_season
\* and ctx the terrain context
update_with(s1, world_state, season, ctx) ==
    LET events == s1.active_events
        result(elapsed, fs, sg, sig) ==
            [self    |-> [s1 EXCEPT
                            !.last_update_hour = <<s1.time_state.hour>>,
                            !.prev_temperature = sg.prev_temperature,
                            !.active_events = decayed_ledger(events, fs, elapsed),
                            !.signature = <<sig>>],
             sig     |-> sig,
             elapsed |-> elapsed,
             applied |-> [i \in 1 .. Len(events) |-> applied_effects(events[i])]]
    IN  the({ the({ result(elapsed, fs, sg, sig) :
                      sig \in {signature_of(s1, season, ctx, fs, sg)} }) :
              elapsed \in {elapsed_hours(s1)},
              fs \in {fade_speed(s1, season, ctx)},
              sg \in {signals(s1, world_state, season, ctx)} })

\* update with a call of _update_month before the season is read
update_refreshing_month(self, world_state) ==
    LET s0 == [self EXCEPT !.time_state = update_month(@)] IN
    the({ the({ update_with(gs.self, world_state, gs.season, ctx) :
                  ctx \in {terrain_context(gs.self, world_state)} }) :
          gs \in {get_season(s0)} })

\* update(world_state): the engine after the call, the signature returned, and
\* the elapsed hours and the effect deltas of the call
update(self, world_state) ==
    the({ the({ update_with(gs.self, world_state, gs.season, ctx) :
                  ctx \in {terrain_context(gs.self, world_state)} }) :
          gs \in {get_season(self)} })

-----------------------------------------------------------------------------
(* The state machine: one action per public operation *)

NoRun ==
    [phase |-> "none", ts |-> Constructed.time_state, total |-> 0, req |-> 0, forced |-> 0]

\* the record of a call that closes no run
Call(op, arg, p0) ==
    [op |-> op, arg |-> arg, p0 |-> p0, after |-> "none", name |-> ""]

\* the record of a commit_time or rollback_time, which closes the run in progress
Closing(op, p0) ==
    [op |-> op, arg |-> 0, p0 |-> p0, after |-> run.phase, name |-> ""]

\* the world-state carriers passed to update: None, a raw dict, and objects
\* with or without a context attribute and with or without a location_id
NoWorld ==
    [kind |-> "none", has_context |-> FALSE, context |-> EmptyCtx, location_id |-> <<>>,
     climatic_zone |-> "temperate"]

\* no update yet, and the clock not moved since
Still == [hours |-> 0, ops |-> 0, pure |-> TRUE]

NoUpdate ==
    [n |-> 0, before |-> <<>>, elapsed |-> 0, applied |-> <<>>, moved |-> Still,
     hourly |-> TRUE]

\* the engine object becomes e
Stored(e) ==
    /\ time_state' = e.time_state
    /\ pending_hours' = e.pending_hours
    /\ total_elapsed_hours' = e.total_elapsed_hours
    /\ active_events' = e.active_events
    /\ hemisphere' = e.hemisphere
    /\ map_manager' = e.map_manager
    /\ last_update_hour' = e.last_update_hour
    /\ signature' = e.signature
    /\ prev_temperature' = e.prev_temperature

Becomes(e, l, r) ==
    /\ Stored(e)
    /\ last' = l
    /\ run' = r
    /\ UNCHANGED <<world, returned, upd, moved, callers>>

\* one caller, which the history does not follow
OneCaller == [by |-> "none"]

\* the engine object is e, nothing has been called on it yet, w is the
\* carrier that update will be passed, and cs the callers
Begins(e, w, cs) ==
    /\ time_state = e.time_state
    /\ pending_hours = e.pending_hours
    /\ total_elapsed_hours = e.total_elapsed_hours
    /\ active_events = e.active_events
    /\ hemisphere = e.hemisphere
    /\ map_manager = e.map_manager
    /\ last_update_hour = e.last_update_hour
    /\ signature = e.signature
    /\ prev_temperature = e.prev_temperature
    /\ world = w
    /\ returned = <<>>
    /\ upd = NoUpdate
    /\ moved = Still
    /\ last = Call("init", 0, 0)
    /\ run = NoRun
    /\ callers = cs

\* the engine object is e, nothing has been called on it yet, and w is the
\* carrier that the caller will pass to update
Starts(e, w) == Begins(e, w, OneCaller)

\* the state after EnvironmentEngine(map_manager = m)
Fresh(m, w) == Starts([Constructed EXCEPT !.map_manager = m], w)

InBounds(e) ==
    /\ DayInWindow(e.time_state.day)
    /\ e.pending_hours >= -MaxDebt
    /\ e.pending_hours <= MaxPending
    /\ e.total_elapsed_hours <= MaxTotal
    /\ Len(e.active_events) <= MaxEvents

Init == Fresh(Constructed.map_manager, NoWorld)

SetHour ==
    \E h \in SetHours :
        \E e \in {[Engine EXCEPT !.time_state = set_hour(@, h)]} :
            InBounds(e) /\ Becomes(e, Call("set_hour", h.q, 0), NoRun)

AdvanceTime ==
    \E h \in AdvanceHours :
        /\ DayInWindow(time_state.day + (time_state.hour + h) \div H24)
        /\ \E e \in {[Engine EXCEPT !.time_state = advance_time(@, h)]} :
            InBounds(e) /\ Becomes(e, Call("advance_time", h, 0), NoRun)

RequestTime ==
    \E h \in RequestHours :
        \E e \in {request_time(Engine, h)} :
            /\ InBounds(e)
            /\ Becomes(e, Call("request_time", h, 0),
                       IF run.phase = "req"
                       THEN [run EXCEPT !.req = @ + h]
                       ELSE IF pending_hours = 0
                            THEN [phase |-> "req", ts |-> time_state,
                                  total |-> total_elapsed_hours, req |-> h, forced |-> 0]
                            ELSE NoRun)

CommitTime ==
    \E e \in {commit_time(Engine)} :
        InBounds(e) /\ Becomes(e, Closing("commit_time", pending_hours), NoRun)

RollbackTime ==
    \E e \in {rollback_time(Engine)} :
        InBounds(e) /\ Becomes(e, Closing("rollback_time", IF run.phase = "none" THEN 0 ELSE pending_hours), NoRun)

ForceTimeJump ==
    \E h \in ForceHours :
        \E e \in {force_time_jump(Engine, h)} :
            /\ InBounds(e)
            /\ Becomes(e, Call("force_time_jump", h, pending_hours),
                       IF run.phase = "req"
                       THEN [run EXCEPT !.phase = "force", !.forced = h]
                       ELSE NoRun)

GracefulTick ==
    \E h \in TickHours :
        \E e \in {graceful_tick(Engine, h)} :
            InBounds(e) /\ Becomes(e, Call("graceful_tick", h, pending_hours), NoRun)

SetTestFlag ==
    \E t \in EventTypes, d \in Durations :
        \E e \in {set_test_flag(Engine, t, d)} :
            InBounds(e) /\ Becomes(e, [Call("set_test_flag", d, 0) EXCEPT !.name = t], NoRun)

ClearTestFlags ==
    \E e \in {clear_test_flags(Engine)} :
        InBounds(e) /\ Becomes(e, Call("clear_test_flags", 0, 0), NoRun)

Next ==
    \/ SetHour
    \/ AdvanceTime
    \/ RequestTime
    \/ CommitTime
    \/ RollbackTime
    \/ ForceTimeJump
    \/ GracefulTick
    \/ SetTestFlag
    \/ ClearTestFlags

Spec == Init /\ [][Next]_vars

-----------------------------------------------------------------------------
(* The environment update: a caller moves the clock, flags events and calls *)
(* update with its world-state carrier                                      *)

\* at most MaxUpdates calls of update
MaxUpdates == 3

\* the ledger holds at most MaxLedger events
MaxLedger == 2

\* the clock is followed up to day MaxWeatherDay
MaxWeatherDay == 2

\* terrain contexts, in thousandths: the coastal town of
\* tests/test_environment_events.py, a context that takes fade_mod above its
\* upper clamp, one that takes it below its lower clamp, and an explicit
\* context that differs from the coastal town's on a key they share
CoastalTown ==
    ("heat_retention" :> 100) @@ ("airflow" :> 500) @@ ("water_coverage" :> 800)
    @@ ("elevation" :> 100) @@ ("comfort" :> 50) @@ ("noise" :> 200)

Lingering ==
    ("heat_retention" :> 2000) @@ ("airflow" :> 0) @@ ("water_coverage" :> 1000)

Windswept ==
    ("airflow" :> 1000) @@ ("elevation" :> 2000) @@ ("latitude" :> 80000)

Explicit ==
    ("airflow" :> 1000) @@ ("latitude" :> 30000)

RawDict ==
    [kind |-> "dict", has_context |-> FALSE, context |-> Windswept, location_id |-> <<>>,
     climatic_zone |-> "temperate"]

DummyWorld ==
    [kind |-> "object", has_context |-> TRUE, context |-> Lingering, location_id |-> <<>>,
     climatic_zone |-> "tropical"]

Carrier ==
    [kind |-> "object", has_context |-> TRUE, context |-> Explicit,
     location_id |-> <<"coastal_town">>, climatic_zone |-> "arid"]

\* <<map_manager, world_state>>: EnvironmentEngine() with update(), with a raw
\* dict and with an object that has no location_id, and
\* EnvironmentEngine(map_manager = FakeMap(ctx)) with a carrier that has one
Setups ==
    { <<<<>>, NoWorld>>, <<<<>>, RawDict>>, <<<<CoastalTown>>, DummyWorld>>,
      <<<<CoastalTown>>, Carrier>> }

WeatherEventTypes == {"Storm", "rain", "FOG", "heatwave", "Clear", "clear", "snow"}
WeatherAdvanceHours == {Hours(23)}
WeatherSetHours == {[q |-> Hours(11), eps |-> 0]}
WeatherForceHours == {Hours(24)}

WeatherInit == \E su \in Setups : Fresh(su[1], su[2])

WeatherBounds(e) ==
    /\ e.time_state.day <= MaxWeatherDay
    /\ Len(e.active_events) <= MaxLedger

\* a caller's turn is at most one operation on the clock, and then update
ClockIdle == moved.ops = 0

\* the clock moved by one more operation: by h hours of advance, or set
MovedBy(h, pure) ==
    [hours |-> moved.hours + h, ops |-> moved.ops + 1, pure |-> moved.pure /\ pure]

Weather(e, l, ret, u, mv) ==
    /\ Stored(e)
    /\ last' = l
    /\ returned' = ret
    /\ upd' = u
    /\ moved' = mv
    /\ UNCHANGED <<world, run, callers>>

\* events are flagged before the first update, as in tests/test_environment_events.py
WeatherSetTestFlag ==
    \E t \in WeatherEventTypes, d \in Durations :
        \E e \in {set_test_flag(Engine, t, d)} :
            /\ upd.n = 0
            /\ WeatherBounds(e)
            /\ Weather(e, [Call("set_test_flag", d, 0) EXCEPT !.name = t],
                       returned, upd, moved)

WeatherSetHour ==
    \E h \in WeatherSetHours :
        \E e \in {[Engine EXCEPT !.time_state = set_hour(@, h)]} :
            /\ ClockIdle
            /\ WeatherBounds(e)
            /\ Weather(e, Call("set_hour", h.q, 0), returned, upd, MovedBy(0, FALSE))

WeatherAdvanceTime ==
    \E h \in WeatherAdvanceHours :
        \E e \in {[Engine EXCEPT !.time_state = advance_time(@, h)]} :
            /\ ClockIdle
            /\ WeatherBounds(e)
            /\ Weather(e, Call("advance_time", h, 0), returned, upd, MovedBy(h, TRUE))

WeatherForceTimeJump ==
    \E h \in WeatherForceHours :
        \E e \in {force_time_jump(Engine, h)} :
            /\ ClockIdle
            /\ WeatherBounds(e)
            /\ Weather(e, Call("force_time_jump", h, pending_hours), returned, upd,
                       MovedBy(h, TRUE))

Update ==
    /\ upd.n < MaxUpdates
    /\ \E r \in {update(Engine, world)} :
        Weather(r.self, Call("update", 0, 0), <<r.sig>>,
                [n |-> upd.n + 1, before |-> active_events, elapsed |-> r.elapsed,
                 applied |-> r.applied, moved |-> moved, hourly |-> FALSE],
                Still)

WeatherNext ==
    \/ WeatherSetTestFlag
    \/ WeatherSetHour
    \/ WeatherAdvanceTime
    \/ WeatherForceTimeJump
    \/ Update

WeatherSpec == WeatherInit /\ [][WeatherNext]_vars

-----------------------------------------------------------------------------
(* The world state: WorldState.advance_time(hours) advances the engine's    *)
(* clock and refreshes the signature with update(self), one tick at a time  *)

\* at most MaxTicks calls of WorldState.advance_time
MaxTicks == 10

\* WorldState: no context attribute, location_id "city_center"
TheWorldState ==
    [kind |-> "object", has_context |-> FALSE, context |-> EmptyCtx,
     location_id |-> <<"city_center">>, climatic_zone |-> "polar"]

\* the map managers of the engine a WorldState is attached to
TickMaps == { <<>>, <<CoastalTown>>, <<Lingering>>, <<Windswept>> }

WorldAdvanceHours == {Hours(1), Hours(24)}

WorldInit == \E m \in TickMaps : Fresh(m, TheWorldState)

\* world_state.advance_time(hours): self.environment_engine.advance_time(hours),
\* then sync_with_environment(): self.environment_engine.update(self)
WorldAdvanceTime ==
    /\ upd.n < MaxTicks
    /\ \E h \in WorldAdvanceHours :
        \E r \in {update([Engine EXCEPT !.time_state = advance_time(@, h)], world)} :
            /\ WeatherBounds(r.self)
            /\ Weather(r.self, Call("world_advance_time", h, 0), <<r.sig>>,
                       [n |-> upd.n + 1, before |-> active_events, elapsed |-> r.elapsed,
                        applied |-> r.applied, moved |-> MovedBy(h, TRUE),
                        hourly |-> upd.hourly /\ h = Hours(1)],
                       Still)

\* env.set_test_flag(event_type, duration) before the first tick
WorldSetTestFlag ==
    \E t \in WeatherEventTypes, d \in Durations :
        \E e \in {set_test_flag(Engine, t, d)} :
            /\ upd.n = 0
            /\ Len(e.active_events) <= MaxEvents
            /\ Weather(e, [Call("set_test_flag", d, 0) EXCEPT !.name = t],
                       returned, upd, moved)

WorldNext ==
    \/ WorldSetTestFlag
    \/ WorldAdvanceTime

WorldSpec == WorldInit /\ [][WorldNext]_vars

-----------------------------------------------------------------------------
(* The almanac: get_season and get_moon_phase, applied to engines whose     *)
(* hemisphere, month and day_of_year a caller has assigned, as              *)
(* tests/test_environment_latitude.py and tests/test_env_timehub.py do      *)

\* stored months from 1 - MonthsBelow to MaxMonth
MonthsBelow == 2

MaxMonth == 26

\* stored days of the year from 0 to MaxDayOfYear
MaxDayOfYear == 60

Months == (1 - MonthsBelow) .. MaxMonth
Hemispheres == {"north", "south"}
DaysOfYear == 0 .. MaxDayOfYear

AlmanacInit ==
    \E m \in Months, he \in Hemispheres, d \in DaysOfYear :
        Starts([Constructed EXCEPT !.time_state.month = m,
                                   !.time_state.day_of_year = d,
                                   !.hemisphere = he], NoWorld)

GetSeason ==
    \E r \in {get_season(Engine)} :
        Weather(r.self, Call("get_season", 0, 0), <<r.season>>, upd, moved)

GetMoonPhase ==
    \E r \in {get_moon_phase(Engine)} :
        Weather(Engine, Call("get_moon_phase", 0, 0), r, upd, moved)

AlmanacNext ==
    \/ GetSeason
    \/ GetMoonPhase

AlmanacSpec == AlmanacInit /\ [][AlmanacNext]_vars

-----------------------------------------------------------------------------
(* The engine under all of its public operations: the clock, the time       *)
(* buffer, the test flags, update and the three readers                     *)

\* at most MaxPublicUpdates calls of update
MaxPublicUpdates == 2

PublicSetups == { <<<<>>, NoWorld>>, <<<<CoastalTown>>, Carrier>> }
PublicEventTypes == {"Storm", "clear"}
PublicRequestHours == {1, 3}
PublicTickHours == {2}

PublicInit == \E su \in PublicSetups : Fresh(su[1], su[2])

PublicBounds(e) ==
    /\ e.time_state.day <= MaxWeatherDay
    /\ e.pending_hours <= MaxPending
    /\ e.total_elapsed_hours <= Hours(24) + MaxTotal
    /\ Len(e.active_events) <= MaxEvents

\* the time buffer is worked before the first update
Buffering == upd.n = 0

\* a call that returns nothing and leaves the engine as e
Public(e, l, mv) ==
    PublicBounds(e) /\ Weather(e, l, returned, upd, mv)

\* the operations that move the clock by h, or leave it
MovedIf(e, h) ==
    IF e.time_state = time_state THEN moved ELSE MovedBy(h, TRUE)

PublicSetHour ==
    \E h \in WeatherSetHours :
        /\ ClockIdle
        /\ Public([Engine EXCEPT !.time_state = set_hour(@, h)],
                  Call("set_hour", h.q, 0), MovedBy(0, FALSE))

PublicAdvanceTime ==
    \E h \in WeatherAdvanceHours :
        /\ ClockIdle
        /\ Public([Engine EXCEPT !.time_state = advance_time(@, h)],
                  Call("advance_time", h, 0), MovedBy(h, TRUE))

PublicRequestTime ==
    \E h \in PublicRequestHours :
        /\ Buffering
        /\ Public(request_time(Engine, h), Call("request_time", h, 0), moved)

PublicCommitTime ==
    /\ Buffering
    /\ ClockIdle
    /\ \E e \in {commit_time(Engine)} :
        Public(e, Call("commit_time", 0, pending_hours), MovedIf(e, pending_hours))

PublicRollbackTime ==
    /\ Buffering
    /\ Public(rollback_time(Engine), Call("rollback_time", 0, pending_hours), moved)

PublicForceTimeJump ==
    \E h \in WeatherForceHours :
        /\ ClockIdle
        /\ Public(force_time_jump(Engine, h), Call("force_time_jump", h, pending_hours),
                  MovedBy(h, TRUE))

PublicGracefulTick ==
    \E h \in PublicTickHours :
        /\ Buffering
        /\ ClockIdle
        /\ \E e \in {graceful_tick(Engine, h)} :
            Public(e, Call("graceful_tick", h, pending_hours), MovedIf(e, pending_hours))

PublicSetTestFlag ==
    \E t \in PublicEventTypes, d \in Durations :
        /\ upd.n = 0
        /\ Public(set_test_flag(Engine, t, d),
                  [Call("set_test_flag", d, 0) EXCEPT !.name = t], moved)

PublicClearTestFlags ==
    \E e \in {clear_test_flags(Engine)} :
        Public(e, Call("clear_test_flags", 0, 0), moved)

PublicUpdate ==
    /\ upd.n < MaxPublicUpdates
    /\ \E r \in {update(Engine, world)} :
        Weather(r.self, Call("update", 0, 0), <<r.sig>>,
                [n |-> upd.n + 1, before |-> active_events, elapsed |-> r.elapsed,
                 applied |-> r.applied, moved |-> moved, hourly |-> FALSE],
                Still)

GetTimeStatus ==
    \E ts \in {get_time_status(Engine)} :
        Weather(Engine, Call("get_time_status", 0, 0), <<ts>>, upd, moved)

PublicNext ==
    \/ PublicSetHour
    \/ PublicAdvanceTime
    \/ PublicRequestTime
    \/ PublicCommitTime
    \/ PublicRollbackTime
    \/ PublicForceTimeJump
    \/ PublicGracefulTick
    \/ PublicSetTestFlag
    \/ PublicClearTestFlags
    \/ PublicUpdate
    \/ GetSeason
    \/ GetMoonPhase
    \/ GetTimeStatus

PublicSpec == PublicInit /\ [][PublicNext]_vars

-----------------------------------------------------------------------------
(* Two logical callers on one engine: each, in turn, flags an event or moves *)
(* the clock and then calls update; their calls interleave                   *)

\* at most MaxSharedUpdates calls of update
MaxSharedUpdates == 3

Callers == {"A", "B"}
SharedEventTypes == {"rain", "storm"}
SharedAdvanceHours == {Hours(2)}
SharedSetHours == {[q |-> Hours(11), eps |-> 0]}

\* pc: where each caller is in its turn; own: the hours it moved the clock by
\* since its own previous update; updated: whether it has called update;
\* all: the hours any caller moved the clock by since the last update of any
\* caller; by: the caller of the last call; of the last update: the hours
\* its caller had moved (hours), whether that caller had updated before
\* (again), the caller of the update before it (after), and the ledger the
\* update would have left had the elapsed hours been its caller's own (serial)
TwoCallers ==
    [pc      |-> [c \in Callers |-> "move"],
     own     |-> [c \in Callers |-> 0],
     updated |-> [c \in Callers |-> FALSE],
     all     |-> 0,
     by      |-> "none",
     updater |-> "none",
     hours   |-> 0,
     again   |-> FALSE,
     after   |-> "none",
     serial  |-> <<>>]

SharedInit == Begins(Constructed, NoWorld, TwoCallers)

Shared(e, l, ret, u, cs) ==
    /\ e.time_state.day <= MaxWeatherDay
    /\ Len(e.active_events) <= MaxEvents
    /\ Stored(e)
    /\ last' = l
    /\ returned' = ret
    /\ upd' = u
    /\ callers' = cs
    /\ UNCHANGED <<world, run, moved>>

\* caller c begins a turn
Turn(c) == callers.pc[c] = "move" /\ upd.n < MaxSharedUpdates

\* caller c has moved the clock by h hours
MovedByCaller(c, h) ==
    [callers EXCEPT !.pc[c] = "update", !.own[c] = @ + h, !.all = @ + h, !.by = c]

\* env.set_test_flag(event_type, duration) before the callers start
SharedSetTestFlag ==
    \E t \in SharedEventTypes, d \in Durations :
        \E e \in {set_test_flag(Engine, t, d)} :
            /\ callers.by = "none"
            /\ Shared(e, [Call("set_test_flag", d, 0) EXCEPT !.name = t],
                      returned, upd, callers)

SharedSetHour ==
    \E c \in Callers, h \in SharedSetHours :
        \E e \in {[Engine EXCEPT !.time_state = set_hour(@, h)]} :
            /\ Turn(c)
            /\ Shared(e, Call("set_hour", h.q, 0), returned, upd,
                      MovedByCaller(c, float_mod([q |-> e.time_state.hour - time_state.hour,
                                                  eps |-> 0], H24)))

SharedAdvanceTime ==
    \E c \in Callers, h \in SharedAdvanceHours :
        \E e \in {[Engine EXCEPT !.time_state = advance_time(@, h)]} :
            /\ Turn(c)
            /\ Shared(e, Call("advance_time", h, 0), returned, upd, MovedByCaller(c, h))

\* the ledger update would leave with elapsed_hours = hours
serial_ledger(self, world_state, hours) ==
    LET gs  == get_season(self)
        ctx == terrain_context(gs.self, world_state)
    IN  decayed_ledger(gs.self.active_events, fade_speed(gs.self, gs.season, ctx), hours)

SharedUpdate ==
    \E c \in Callers :
        /\ upd.n < MaxSharedUpdates
        /\ callers.pc[c] = "update"
        /\ \E r \in {update(Engine, world)} :
            Shared(r.self, Call("update", 0, 0), <<r.sig>>,
                   [n |-> upd.n + 1, before |-> active_events, elapsed |-> r.elapsed,
                    applied |-> r.applied, moved |-> moved, hourly |-> FALSE],
                   [callers EXCEPT !.pc[c] = "move", !.own[c] = 0, !.updated[c] = TRUE,
                                   !.all = 0, !.by = c, !.updater = c,
                                   !.hours = callers.own[c],
                                   !.again = callers.updated[c],
                                   !.after = callers.updater,
                                   !.serial = serial_ledger(Engine, world, callers.own[c])])

SharedNext ==
    \/ SharedSetTestFlag
    \/ SharedSetHour
    \/ SharedAdvanceTime
    \/ SharedUpdate

SharedSpec == SharedInit /\ [][SharedNext]_vars

-----------------------------------------------------------------------------
(* The time buffer alone: the clock is moved only through commit_time,      *)
(* force_time_jump and the commit of graceful_tick                          *)

\* the clock is followed up to day MaxBufferDay
MaxBufferDay == 3

BufferRequestHours == {-1, 3, Hours(13)}
BufferForceHours == {-3, 0, 3, Hours(13)}
BufferTickHours == {2}

BufferInit == Fresh(Constructed.map_manager, NoWorld)

\* h is within low .. high of a multiple of 13 h
Near13(h, low, high) == (h + low) % Hours(13) <= low + high

\* moved: the hours counted so far, and whether every amount was non-negative
Buffer(e, l, mv) ==
    /\ e.time_state.day <= MaxBufferDay
    /\ e.pending_hours >= -MaxDebt
    /\ e.pending_hours <= Hours(13) + MaxPending
    /\ Near13(e.pending_hours, MaxDebt, MaxPending)
    /\ e.total_elapsed_hours >= -MaxTotal
    /\ Near13(e.total_elapsed_hours, MaxTotal, MaxTotal)
    /\ Weather(e, l, returned, upd, mv)

\* h more hours counted
Counted(h, ok) == [moved EXCEPT !.hours = @ + h, !.pure = @ /\ ok]

\* the hours a commit_time that finds p pending moves the clock by
Committing(p) == IF p > 0 THEN Counted(p, TRUE) ELSE moved

BufferRequestTime ==
    \E h \in BufferRequestHours :
        \E e \in {request_time(Engine, h)} :
            Buffer(e, Call("request_time", h, pending_hours), moved)

BufferCommitTime ==
    \E e \in {commit_time(Engine)} :
        Buffer(e, Call("commit_time", 0, pending_hours), Committing(pending_hours))

BufferRollbackTime ==
    \E e \in {rollback_time(Engine)} :
        Buffer(e, Call("rollback_time", 0, pending_hours), moved)

BufferForceTimeJump ==
    \E h \in BufferForceHours :
        \E e \in {force_time_jump(Engine, h)} :
            Buffer(e, Call("force_time_jump", h, pending_hours), Counted(h, h >= 0))

BufferGracefulTick ==
    \E h \in BufferTickHours :
        \E e \in {graceful_tick(Engine, h)} :
            Buffer(e, Call("graceful_tick", h, pending_hours),
                   IF pending_hours >= lag_tolerance
                   THEN Committing(pending_hours)
                   ELSE moved)

BufferNext ==
    \/ BufferRequestTime
    \/ BufferCommitTime
    \/ BufferRollbackTime
    \/ BufferForceTimeJump
    \/ BufferGracefulTick

BufferSpec == BufferInit /\ [][BufferNext]_vars

-----------------------------------------------------------------------------
(* The background drift: graceful_tick(h) called again and again with one h, *)
(* among request_time and commit_time calls and without rollback_time        *)

\* the calls are followed while total_elapsed_hours is below MaxDrift quanta
MaxDrift == 8

\* the h of graceful_tick(h), quanta
DriftTick == 2
DriftRequestHours == {-1, 1}

DriftInit == Fresh(Constructed.map_manager, NoWorld)

Drifting == total_elapsed_hours < MaxDrift

Drift(e, l) ==
    /\ Drifting
    /\ e.pending_hours >= -MaxDebt
    /\ e.pending_hours <= MaxPending
    /\ Weather(e, l, returned, upd, moved)

DriftGracefulTick ==
    \E e \in {graceful_tick(Engine, DriftTick)} :
        Drift(e, Call("graceful_tick", DriftTick, pending_hours))

DriftRequestTime ==
    \E h \in DriftRequestHours :
        \E e \in {request_time(Engine, h)} :
            Drift(e, Call("request_time", h, pending_hours))

DriftCommitTime ==
    \E e \in {commit_time(Engine)} :
        Drift(e, Call("commit_time", 0, pending_hours))

DriftNext ==
    \/ DriftGracefulTick
    \/ DriftRequestTime
    \/ DriftCommitTime

\* graceful_tick keeps being called
DriftSpec == DriftInit /\ [][DriftNext]_vars /\ WF_vars(DriftGracefulTick)

-----------------------------------------------------------------------------
(* The calls of a step, read off the history the step writes *)

Did(op) == last'.op = op

\* the hours a step moves the clock by through advance_time: the argument of
\* advance_time and force_time_jump, the pending hours commit_time found
Moved ==
    IF last'.op = "commit_time" THEN last'.p0 ELSE last'.arg

Advancing ==
    \/ Did("advance_time")
    \/ Did("force_time_jump")
    \/ Did("commit_time") /\ last'.p0 > 0

-----------------------------------------------------------------------------
(* Time buffer *)

\* C1: rollback_time after any run of request_time calls leaves pending_hours = 0
\* and the clock and total_elapsed_hours as they were before the first request:
\* no request_time moves the clock or the total, rollback_time moves neither and
\* zeroes the pending hours, and at the rollback_time that ends a run of requests
\* the clock and the total are the ones the run began from.
RollbackRoundTrip ==
    [][ /\ Did("request_time") =>
            /\ time_state' = time_state
            /\ total_elapsed_hours' = total_elapsed_hours
        /\ Did("rollback_time") =>
            /\ pending_hours' = 0
            /\ time_state' = time_state
            /\ total_elapsed_hours' = total_elapsed_hours
        /\ (Did("rollback_time") /\ run.phase = "req") =>
            /\ pending_hours' = 0
            /\ time_state' = run.ts
            /\ total_elapsed_hours' = run.total ]_vars

\* a rollback_time has ended a run of request_time calls that left hours pending
RolledBackRequests ==
    /\ last.op = "rollback_time"
    /\ last.after = "req"
    /\ last.p0 > 0
    /\ pending_hours = 0

\* C2: commit_time with p > 0 hours pending leaves the clock at advance_time(p) of
\* the clock before, pending_hours = 0 and total_elapsed_hours grown by p; with
\* nothing pending it changes nothing.
CommitMovesPending ==
    [][ Did("commit_time") =>
            /\ pending_hours > 0 =>
                /\ time_state' = advance_time(time_state, pending_hours)
                /\ pending_hours' = 0
                /\ total_elapsed_hours' = total_elapsed_hours + pending_hours
                /\ active_events' = active_events
            /\ pending_hours = 0 =>
                UNCHANGED <<time_state, pending_hours, total_elapsed_hours, active_events>>
      ]_vars

\* a commit_time has moved pending hours into the clock, across midnight
CommittedPending ==
    /\ last.op = "commit_time"
    /\ last.p0 > 0
    /\ pending_hours = 0
    /\ total_elapsed_hours >= last.p0
    /\ time_state.hour < last.p0

\* C3: request_time(h) adds h to pending_hours and changes nothing else: not the
\* clock, not total_elapsed_hours, not the ledger of events.
RequestOnlyQueues ==
    [][ Did("request_time") =>
            /\ pending_hours' = pending_hours + last'.arg
            /\ UNCHANGED <<time_state, total_elapsed_hours, active_events>> ]_vars

\* a request_time has queued hours on top of pending hours, with an event in the ledger
RequestedMore ==
    /\ last.op = "request_time"
    /\ last.arg > 0
    /\ pending_hours > last.arg
    /\ active_events # <<>>

\* C4: force_time_jump(h) advances the clock by h at once and adds h to
\* total_elapsed_hours whatever is pending, and leaves pending_hours as it was.
\* From an empty buffer, request_time(a) .. ; force_time_jump(b) ; rollback_time
\* leaves the clock advanced by b only, and with a > 0 requested,
\* request_time(a) .. ; force_time_jump(b) ; commit_time leaves it advanced by a + b.
ForceBypassesBuffer ==
    [][ /\ Did("force_time_jump") =>
            /\ time_state' = advance_time(time_state, last'.arg)
            /\ total_elapsed_hours' = total_elapsed_hours + last'.arg
            /\ pending_hours' = pending_hours
        /\ (Did("rollback_time") /\ run.phase = "force") =>
            /\ time_state' = advance_time(run.ts, run.forced)
            /\ total_elapsed_hours' = run.total + run.forced
            /\ pending_hours' = 0
        /\ (Did("commit_time") /\ run.phase = "force" /\ run.req > 0) =>
            /\ time_state' = advance_time(run.ts, run.req + run.forced)
            /\ total_elapsed_hours' = run.total + run.req + run.forced
            /\ pending_hours' = 0 ]_vars

\* a commit_time has followed request_time(a), a > 0, and force_time_jump(b), b > 0
ForcedThenCommitted ==
    /\ last.op = "commit_time"
    /\ last.after = "force"
    /\ last.p0 > 0
    /\ total_elapsed_hours > last.p0

\* C5: graceful_tick(h) does one of two things: with pending_hours >= lag_tolerance
\* it commits what is pending (the clock advances by it, pending_hours becomes 0,
\* h is added nowhere); otherwise it adds h * 0.5 to pending_hours and leaves the
\* clock and total_elapsed_hours alone.
GracefulTickBranches ==
    [][ Did("graceful_tick") =>
            IF pending_hours >= lag_tolerance
            THEN /\ time_state' = advance_time(time_state, pending_hours)
                 /\ pending_hours' = 0
                 /\ total_elapsed_hours' = total_elapsed_hours + pending_hours
            ELSE /\ 2 * pending_hours' = 2 * pending_hours + last'.arg
                 /\ UNCHANGED <<time_state, total_elapsed_hours>> ]_vars

\* a graceful_tick has found exactly lag_tolerance pending and committed it
TickCommitted ==
    /\ last.op = "graceful_tick"
    /\ last.p0 = lag_tolerance
    /\ pending_hours = 0
    /\ total_elapsed_hours >= lag_tolerance

\* C6: pending_hours >= 0 in every state reachable by request_time, graceful_tick,
\* commit_time, rollback_time and force_time_jump, whatever hours are passed.
PendingNeverNegative ==
    pending_hours >= 0

-----------------------------------------------------------------------------
(* Clock *)

\* hours advanced in two steps and in one, for C7
AddHours == {0, 1, Hours(10), Hours(14), Hours(24)}

NightFlagMatchesHour ==
    time_state.is_night = ~(Hours(6) <= time_state.hour /\ time_state.hour < Hours(18))

\* a set_hour has moved the clock from day to night
SetHourIntoNight ==
    /\ last.op = "set_hour"
    /\ last.arg = -1
    /\ time_state.hour = H24 - 1
    /\ time_state.is_night

\* C9: in every state reachable by set_hour (any hour), advance_time, commit_time
\* and force_time_jump (hours >= 0) the clock is in range: 0 <= hour < 24,
\* 1 <= day_of_year <= 360, 1 <= month <= 12, day >= 1, year >= 1.
ClockInRange ==
    /\ 0 <= time_state.hour /\ time_state.hour < H24
    /\ 1 <= time_state.day_of_year /\ time_state.day_of_year <= DaysPerYear
    /\ 1 <= time_state.month /\ time_state.month <= 12
    /\ time_state.day >= 1
    /\ time_state.year >= 1

\* the 24 h boundaries crossed by moving the clock h hours on from ts
Crossings(ts, h) == (ts.hour + h) \div H24

\* C10: each time the hour crosses 24 in advance_time, day and day_of_year grow by
\* one; when that takes day_of_year above 360, day_of_year becomes 1, year grows
\* by one and month becomes 1, and day keeps counting.  For a step that moves the
\* clock by h hours over k = Crossings boundaries: day grows by k, day_of_year is
\* counted on k days round the 360-day year, year grows by the number of wraps,
\* and month is 1 after a wrap and untouched without one.
DayRollover ==
    [][ Advancing =>
            LET k    == Crossings(time_state, Moved)
                days == time_state.day_of_year - 1 + k
            IN  /\ time_state'.hour = (time_state.hour + Moved) % H24
                /\ time_state'.day = time_state.day + k
                /\ time_state'.day_of_year = (days % DaysPerYear) + 1
                /\ time_state'.year = time_state.year + (days \div DaysPerYear)
                /\ time_state'.month = IF days >= DaysPerYear THEN 1 ELSE time_state.month
      ]_vars

\* an advance_time of 48 h has crossed midnight twice and the year wrap in between
RolledOverYear ==
    /\ last.op = "advance_time"
    /\ last.arg = Hours(48)
    /\ time_state.year = 2
    /\ time_state.day_of_year = 1
    /\ time_state.month = 1
    /\ time_state.day = DaysPerYear - Constructed.time_state.day_of_year + 2

-----------------------------------------------------------------------------
(* Weather events *)

\* the smaller of two ledger lengths
Shorter(a, b) == IF Len(a) <= Len(b) THEN Len(a) ELSE Len(b)

\* C11: the fade of an event never increases from one update to the next,
\* whatever moves the clock in between (advance_time, set_hour to an earlier or
\* a later hour, commit_time, force_time_jump): no step, an update or any other
\* operation, raises the fade of an event that stays in the ledger.
FadeNeverIncreases ==
    [][ \A i \in 1 .. Shorter(active_events, active_events') :
            active_events'[i].fade <= active_events[i].fade ]_vars

\* a second update, after set_hour put the clock back, has lowered the fade of a
\* rain event
FadedAfterClockSetBack ==
    /\ last.op = "update"
    /\ upd.n = 2
    /\ upd.moved.ops = 1 /\ ~upd.moved.pure
    /\ Len(upd.before) >= 1
    /\ upd.before[1].type = "rain"
    /\ active_events[1].fade < upd.before[1].fade

\* C12: with the clock advanced by a positive number of hours between
\* consecutive updates, the fade of every event reaches <= 0.01 after finitely
\* many updates.  Stated on one tick: a WorldState.advance_time(h) with h > 0
\* that follows an earlier update lowers the fade of every event still above
\* 0.01; where a tick leaves such a fade as it was, repeating the tick leaves it
\* so for ever.
PositiveAdvanceFades ==
    [][ (Did("world_advance_time") /\ upd.n >= 1 /\ last'.arg > 0) =>
            \A i \in 1 .. Len(active_events) :
                active_events[i].fade > InertFade =>
                    active_events'[i].fade < active_events[i].fade ]_vars

\* the ticks of the storm scenario of tests/test_environment_events.py
StormTicks == 10

\* the storm scenario so far: the ledger holds the storm flagged with duration 6
\* before the first tick and nothing else, and every tick advanced 1 h
InStormScenario ==
    /\ upd.hourly
    /\ Len(active_events) = 1
    /\ active_events[1].type = "storm"
    /\ active_events[1].duration = 6 - upd.n

\* C13: after set_test_flag("storm", 6) on a fresh engine, each of 10 updates,
\* each after a 1 h advance, lists "storm" in active_events and reports an
\* event_intensity lower than the update before it, for every terrain context.
StormFadesTickByTick ==
    [][ (Did("world_advance_time") /\ last'.arg = Hours(1) /\ InStormScenario
         /\ upd.n < StormTicks) =>
            /\ \E i \in 1 .. Len(returned'[1].active_events) :
                    returned'[1].active_events[i] = "storm"
            /\ upd.n >= 1 =>
                    returned'[1].event_intensity < returned[1].event_intensity ]_vars

\* the tenth hourly tick of the storm scenario has listed the storm
TenthStormTick ==
    /\ last.op = "world_advance_time"
    /\ upd.n = StormTicks
    /\ InStormScenario
    /\ returned[1].active_events = <<"storm">>
    /\ returned[1].event_intensity > InertFade

\* a fade clamped to 0..1
Unit(f) == IF f < 0 THEN 0 ELSE IF f > FullFade THEN FullFade ELSE f

\* the ledger positions whose clamped fade exceeds 0.01
Listed(events) == {i \in 1 .. Len(events) : Unit(events[i].fade) > InertFade}

TypesListed(events) ==
    LET kept == SelectSeq(events, LAMBDA ev : Unit(ev.fade) > InertFade)
    IN  [i \in 1 .. Len(kept) |-> kept[i].type]

\* the maximum clamped fade among the listed events, 0 when none is listed
MaxListed(events) ==
    LET S == {0} \cup {Unit(events[i].fade) : i \in Listed(events)}
    IN  CHOOSE x \in S : \A y \in S : y <= x

\* the signature lists the events above 0.01 at the start of the call, in
\* ledger order, and the others add no effect delta
ListsActive ==
    last.op = "update" =>
        /\ returned[1].active_events = TypesListed(upd.before)
        /\ \A i \in 1 .. Len(upd.before) :
              /\ i \notin Listed(upd.before) => upd.applied[i] = EmptyCtx
              /\ i \in Listed(upd.before) => upd.applied[i] # EmptyCtx

\* C14, as the code has it: in every signature returned by update,
\* active_events lists, in ledger order, the types of exactly the events
\* whose clamped fade at the start of the call exceeds 0.01, the events at or
\* below 0.01 contribute no effect delta, and event_intensity is the maximum
\* clamped fade among the listed events rounded to three decimals, 0 when
\* none is listed
SignatureListsActive ==
    /\ ListsActive
    /\ last.op = "update" =>
          returned[1].event_intensity = round3(MaxListed(upd.before))

\* C14, as stated: the same, with event_intensity equal to the maximum
\* clamped fade itself
EventIntensityIsMaxFade ==
    /\ ListsActive
    /\ last.op = "update" =>
          returned[1].event_intensity = MaxListed(upd.before)

\* an update on a ledger whose first event has faded out and whose second
\* has not, with a maximum fade that is not a whole number of thousandths
InertBesideActive ==
    /\ last.op = "update"
    /\ Len(upd.before) = 2
    /\ Listed(upd.before) = {2}
    /\ upd.before[1].fade < 0
    /\ returned[1].active_events = <<upd.before[2].type>>
    /\ MaxListed(upd.before) % 10 # 0
    /\ returned[1].event_intensity = round3(upd.before[2].fade)

\* a set_test_flag step: a known type, compared case-insensitively, appends
\* one event with fade 1.0 and the given duration after the existing events,
\* left as they were; a clearing type empties the ledger; any other type
\* leaves the ledger as it was
FlagStep(clears) ==
    Did("set_test_flag") =>
        IF Lower(last'.name) \in {"storm", "rain", "fog", "heatwave"}
        THEN /\ Len(active_events') = Len(active_events) + 1
             /\ \A i \in 1 .. Len(active_events) : active_events'[i] = active_events[i]
             /\ active_events'[Len(active_events')].type = Lower(last'.name)
             /\ active_events'[Len(active_events')].fade = FullFade
             /\ active_events'[Len(active_events')].duration = last'.arg
        ELSE IF clears
             THEN active_events' = <<>>
             ELSE active_events' = active_events

\* C15, as the code has it: set_test_flag(type, duration) with a known type
\* (storm, rain, fog, heatwave, compared case-insensitively) appends exactly
\* one event with fade 1.0 and the given duration and leaves the existing
\* events untouched; with the type clear, compared case-insensitively too, it
\* empties the ledger and creates no event; with any other type it leaves
\* the ledger unchanged
FlagFoldsCase ==
    [][ FlagStep(Lower(last'.name) = "clear") ]_vars

\* C15, as stated: only the literal type clear empties the ledger
FlagClearsOnLiteral ==
    [][ FlagStep(last'.name = "clear") ]_vars

\* FOG flagged after a storm: the ledger is the storm, then the fog
FlaggedFogAfterStorm ==
    /\ last.op = "set_test_flag"
    /\ last.name = "FOG"
    /\ last.arg = 6
    /\ Len(active_events) = 2
    /\ active_events[1].type = "storm"
    /\ active_events[2] = [type |-> "fog", duration |-> 6, fade |-> FullFade,
                           effects |-> effects_of("fog"), test |-> TRUE]

\* C16: every event in the ledger has 0 <= fade <= 1 in every reachable
\* state, for every event type and any sequence of updates and clock advances
FadeInUnitRange ==
    \A i \in 1 .. Len(active_events) :
        /\ 0 <= active_events[i].fade
        /\ active_events[i].fade <= FullFade

-----------------------------------------------------------------------------
(* Season and moon *)

NorthSeasons ==
    <<"winter", "winter", "spring", "spring", "spring", "summer", "summer",
      "summer", "autumn", "autumn", "autumn", "winter">>

\* a season shifted by two seasons
Opposite ==
    [spring |-> "autumn", summer |-> "winter", autumn |-> "spring", winter |-> "summer"]

SeasonIn(hemi, m) ==
    IF hemi = "north" THEN NorthSeasons[m] ELSE Opposite[NorthSeasons[m]]

\* C17: for every stored month 1..12, get_season returns in the northern
\* hemisphere spring for 3-5, summer for 6-8, autumn for 9-11 and winter for
\* 12, 1, 2, and in the southern hemisphere the northern season of the same
\* month shifted by two seasons
SeasonByHemisphere ==
    [][ (Did("get_season") /\ time_state.month \in 1 .. 12) =>
            /\ returned' = <<SeasonIn(hemisphere, time_state.month)>>
            /\ time_state' = time_state ]_vars

\* get_season in the southern hemisphere in December
SouthernDecember ==
    /\ last.op = "get_season"
    /\ hemisphere = "south"
    /\ time_state.month = 12
    /\ returned = <<"summer">>

Clamped(m) == IF m < 1 THEN 1 ELSE IF m > 12 THEN 12 ELSE m

\* C18: get_season clamps an out-of-range stored month into [1,12] (below 1
\* to 1, above 12 to 12) and writes it back, so that after the call the
\* stored month is within [1,12] and the season returned is that of the
\* stored month
SeasonClampsMonth ==
    [][ Did("get_season") =>
            /\ time_state'.month = Clamped(time_state.month)
            /\ returned' = <<SeasonIn(hemisphere, time_state'.month)>> ]_vars

PhaseOrder ==
    <<"New Moon", "Waxing Crescent", "First Quarter", "Waxing Gibbous",
      "Full Moon", "Waning Gibbous", "Last Quarter", "Waning Crescent">>

\* the place of a phase in the cycle, from 1
PhasePlace(name) == CHOOSE i \in 1 .. Len(PhaseOrder) : PhaseOrder[i] = name

\* get_moon_phase on the day d of the year
MoonOn(d) == get_moon_phase([Engine EXCEPT !.time_state.day_of_year = d])

\* C19: get_moon_phase depends only on day_of_year mod 29, so it is periodic
\* with period 29; as day_of_year mod 29 runs from 0 to 28 the phase starts
\* at New Moon, stays or moves to the next phase each day and ends at Waning
\* Crescent, so it visits the 8 phases in order; the light factor is 0.05
\* at New Moon and 1.0 at Full Moon only
MoonCycleInOrder ==
    last.op = "get_moon_phase" =>
        LET d == time_state.day_of_year
            k == d % 29
        IN  /\ returned = MoonOn(k)
            /\ returned = MoonOn(d + 29)
            /\ returned[1] \in {PhaseOrder[i] : i \in 1 .. Len(PhaseOrder)}
            /\ k = 0 => returned[1] = "New Moon"
            /\ k < 28 => PhasePlace(MoonOn(d + 1)[1]) - PhasePlace(returned[1]) \in {0, 1}
            /\ k = 28 => returned[1] = "Waning Crescent"
            /\ returned[1] = "New Moon" => returned[2] = 50
            /\ returned[2] = 1000 <=> returned[1] = "Full Moon"

\* the full moon of the second cycle
SecondFullMoon ==
    /\ last.op = "get_moon_phase"
    /\ time_state.day_of_year = 29 + 15
    /\ returned = <<"Full Moon", 1000>>

-----------------------------------------------------------------------------
(* Terrain context *)

\* C20: with a map provider wired in and a world-state carrier that has a
\* location_id, the local_context of the signature is the map-derived context
\* overridden by the carrier's explicit context: every key present in both
\* has the explicit context's value
ExplicitContextWins ==
    ( /\ last.op = "update"
      /\ map_manager # <<>>
      /\ world.kind = "object"
      /\ world.has_context
      /\ world.location_id # <<>> ) =>
        \A key \in DOMAIN world.context \cap DOMAIN map_manager[1] :
            /\ key \in DOMAIN returned[1].local_context
            /\ returned[1].local_context[key] = world.context[key]

-----------------------------------------------------------------------------
(* Signals *)

SignalNames ==
    {"temperature", "humidity", "precipitation", "comfort", "air_quality",
     "visibility", "safety", "noise", "wind_strength"}

\* C21: in every signature returned by update each of temperature, humidity,
\* precipitation, comfort, air_quality, visibility, safety, noise and
\* wind_strength lies in [0,1]
SignalsInUnitRange ==
    last.op = "update" =>
        \A k \in SignalNames :
            /\ 0 <= returned[1][k]
            /\ returned[1][k] <= FullFade

\* an update in the tropical zone with a storm in the ledger: the
\* precipitation is held at 1.0 and the visibility at 0
StormInTheTropics ==
    /\ last.op = "update"
    /\ world.climatic_zone = "tropical"
    /\ \E i \in 1 .. Len(upd.before) :
          upd.before[i].type = "storm" /\ upd.before[i].fade = FullFade
    /\ returned[1].precipitation = FullFade
    /\ returned[1].visibility = 0
    /\ returned[1].temperature > 0
    /\ returned[1].temperature < FullFade

-----------------------------------------------------------------------------
(* Decay, ledger and clock under update *)

\* C22: an update for which elapsed_hours is 0 (the first update of an
\* engine, or an update with no clock change since the previous one) leaves
\* the fade of every event, of every type including storm, unchanged
NoElapsedNoDecay ==
    [][ (Did("update") /\ upd'.elapsed = 0) =>
            /\ Len(active_events') = Len(active_events)
            /\ \A i \in 1 .. Len(active_events) :
                  active_events'[i].fade = active_events[i].fade ]_vars

\* C23: update never removes an event from the ledger: it keeps the number
\* and the order of the entries, an event that has faded to 0.01 or less
\* stays in the ledger and adds no effect in that update nor after it, and
\* only set_test_flag with clear or clear_test_flags shortens the ledger
UpdateKeepsLedger ==
    [][ /\ Did("update") =>
              /\ Len(active_events') = Len(active_events)
              /\ \A i \in 1 .. Len(active_events) :
                    /\ active_events'[i].type = active_events[i].type
                    /\ active_events[i].fade <= InertFade =>
                          /\ active_events'[i].fade <= InertFade
                          /\ upd'.applied[i] = EmptyCtx
        /\ Len(active_events') < Len(active_events) =>
              \/ Did("clear_test_flags")
              \/ Did("set_test_flag") /\ Lower(last'.name) = "clear" ]_vars

\* an update of a ledger of two with an event that had already faded out
FadedOutStays ==
    /\ last.op = "update"
    /\ Len(upd.before) = 2
    /\ Len(active_events) = 2
    /\ \E i \in 1 .. 2 :
          /\ upd.before[i].fade <= InertFade
          /\ active_events[i].fade <= upd.before[i].fade
          /\ active_events[i].type = upd.before[i].type

\* the operations that do not go through set_hour or advance_time
Bystanders ==
    {"update", "get_season", "get_moon_phase", "get_time_status", "request_time",
     "rollback_time", "set_test_flag", "clear_test_flags"}

\* C24: the clock is changed only by set_hour and advance_time, directly or
\* through commit_time and force_time_jump: update, get_season,
\* get_moon_phase, get_time_status, request_time, rollback_time,
\* set_test_flag and clear_test_flags leave every field of the clock as it
\* was, and update also leaves pending_hours and total_elapsed_hours as they were
ClockMovedOnlyByClockCalls ==
    [][ /\ last'.op \in Bystanders => time_state' = time_state
        /\ Did("update") =>
              /\ pending_hours' = pending_hours
              /\ total_elapsed_hours' = total_elapsed_hours
        /\ time_state' # time_state =>
              last'.op \in {"set_hour", "advance_time", "commit_time",
                            "force_time_jump", "graceful_tick"} ]_vars

\* an update on the second day with hours pending and hours committed
UpdateBesideBuffer ==
    /\ last.op = "update"
    /\ time_state.day = 2
    /\ pending_hours > 0
    /\ total_elapsed_hours > 0
    /\ returned[1].day = 2

(* The moon from day to day *)

\* the phase reported by get_moon_phase on the clock ts
MoonAt(ts) == get_moon_phase([Engine EXCEPT !.time_state = ts])[1]

\* the phase after p in the cycle, Waning Crescent being followed by New Moon
NextPhase(p) == PhaseOrder[(PhasePlace(p) % Len(PhaseOrder)) + 1]

\* C25: when the clock is advanced by 24 h, the moon phase of the day
\* reached is the phase of the day left or the next phase in the cycle of
\* eight, also across the end of the 360-day year
MoonNeverSkips ==
    [][ (Did("advance_time") /\ last'.arg = Hours(24)) =>
            \/ MoonAt(time_state') = MoonAt(time_state)
            \/ MoonAt(time_state') = NextPhase(MoonAt(time_state)) ]_vars

(* Duration *)

\* C26: the duration of an event is informational: every update lowers the
\* duration of every ledger event by exactly 1, below 0 as well, and an event
\* whose duration is 0 or less still adds its effects scaled by its fade and
\* is still listed in active_events while its fade exceeds 0.01
DurationOnlyCounts ==
    [][ Did("world_advance_time") =>
            \A i \in 1 .. Len(active_events) :
                /\ active_events'[i].duration = active_events[i].duration - 1
                /\ (active_events[i].duration <= 0 /\ i \in Listed(active_events)) =>
                      /\ upd'.applied[i] =
                            [key \in DOMAIN active_events[i].effects |->
                                active_events[i].effects[key] * Unit(active_events[i].fade)]
                      /\ \E j \in 1 .. Len(returned'[1].active_events) :
                            returned'[1].active_events[j] = active_events[i].type ]_vars

\* a storm flagged for 6 ticks, listed and raining on its tenth tick
StormOutlivesDuration ==
    /\ last.op = "world_advance_time"
    /\ upd.n = StormTicks
    /\ Len(active_events) = 1
    /\ upd.before[1].type = "storm"
    /\ upd.before[1].duration = -3
    /\ active_events[1].duration = -4
    /\ returned[1].active_events = <<"storm">>
    /\ upd.applied[1].precipitation > 0
    /\ returned[1].precipitation > 0

(* Callers that share the engine *)

\* C27: update keeps one last update hour for the engine, whoever called it:
\* the elapsed hours of an update are the hours by which all the callers
\* together moved the clock since the last update of any caller, modulo 24,
\* so that with two callers an update of one of them is reached whose
\* elapsed hours differ from the hours that caller moved the clock by since
\* its own previous update, and the events decay by another amount than in
\* that caller's serial execution
ElapsedSinceAnyUpdate ==
    [][ Did("update") =>
            upd'.elapsed = IF upd.n = 0 THEN 0 ELSE callers.all % H24 ]_vars

\* an update of a caller after its own previous update and after an update of
\* the other caller: the elapsed hours are not the hours the caller moved
\* the clock by, and the ledger is not the one its serial execution leaves
ElapsedFromOtherCaller ==
    /\ last.op = "update"
    /\ callers.again
    /\ callers.after \in Callers \ {callers.updater}
    /\ callers.hours > 0
    /\ callers.hours < H24
    /\ upd.elapsed # callers.hours
    /\ Len(active_events) = 1
    /\ active_events[1].fade # callers.serial[1].fade

(* The total of the hours elapsed *)

\* the hours the clock stands at after the noon of day 1
SinceConstruction(ts) == H24 * (ts.day - 1) + ts.hour - Constructed.time_state.hour

\* C28: total_elapsed_hours is the sum of the hours moved by the commit_time
\* calls that found hours pending and of the hours passed to
\* force_time_jump; while the clock is changed only through commit_time and
\* force_time_jump with amounts that are not negative, it is the advance of
\* the clock since construction, 24 * (day - 1) + hour - 12
TotalIsHoursMoved ==
    /\ total_elapsed_hours = moved.hours
    /\ moved.pure => total_elapsed_hours = SinceConstruction(time_state)

\* commits and forced jumps have taken the clock to the third day
MovedIntoThirdDay ==
    /\ time_state.day = 3
    /\ moved.pure
    /\ total_elapsed_hours > H24
    /\ last.op \in {"commit_time", "graceful_tick"}
    /\ last.p0 > 0
    /\ pending_hours = 0

(* The month *)

\* C29: advancing the clock changes the month only by resetting it to 1 at
\* the wrap of the year: from construction the month stays 4, and get_season
\* returns the season of construction, on every day of the first year, and
\* the month is 1 in every state after the first wrap; a step changes the
\* month only if it advances the clock into another year
MonthOnlyResets ==
    /\ time_state.year = Constructed.time_state.year =>
          /\ time_state.month = Constructed.time_state.month
          /\ get_season(Engine).season = get_season(Constructed).season
    /\ time_state.year > Constructed.time_state.year => time_state.month = 1

\* a commit or a forced jump has taken the clock into year 2, and the season
\* with it
CommittedIntoNewYear ==
    /\ last.op \in {"commit_time", "force_time_jump", "graceful_tick"}
    /\ time_state.year = 2
    /\ time_state.month = 1
    /\ time_state.hour < lag_tolerance + 2
    /\ get_season(Engine).season = "winter"
    /\ get_season(Constructed).season = "spring"

(* The background drift *)

\* a commit goes on happening: whatever the total of the hours elapsed, a
\* commit raises it
CommitsAgainAndAgain ==
    \A n \in 0 .. MaxDrift - 1 :
        (total_elapsed_hours = n) ~> (total_elapsed_hours > n)

\* after graceful_tick(h), h >= 0: pending_hours < lag_tolerance + h * 0.5
TickBound ==
    [][ (Did("graceful_tick") /\ last'.arg >= 0) =>
            2 * pending_hours' < 2 * lag_tolerance + last'.arg ]_vars

\* request_time with negative hours
UndoingRequest == Did("request_time") /\ last'.arg < 0

====
